---- MODULE Spec2Model ----
(***************************************************************************)
(* Model of json_rpc.py: the Json-RPC 1.0/2.0 Service dispatcher.          *)
(*                                                                         *)
(* Python values are modelled as tagged records.  A JSON value is          *)
(* [t, v]: t is its type ("str", "int", "null", "list", "dict", or "obj"    *)
(* for a Python object the JSON encoder rejects) and v is its printed      *)
(* form; a dict value is a mapping with the single key v.                  *)
(* A Python call is modelled by a record [exc, val, calls]: exc is the     *)
(* class of the exception that propagated ("" when the call returned),     *)
(* val is the returned value and calls is the sequence of registered       *)
(* callables that were invoked on the way.                                 *)
(***************************************************************************)
EXTENDS Integers, Sequences, FiniteSets, TLC

VARIABLES methods, methods_10, methods_20, last_result, lastOp, json_str,
          result, calls, thread, loop

vars == <<methods, methods_10, methods_20, last_result, lastOp, json_str,
          result, calls, thread, loop>>

----------------------------------------------------------------------------
(* Bounds *)

MaxBatch == 2

\* registrable method names and the callables of the model; f and g are two
\* different functions with the same __name__, h has another one
Names == {"add", "echo"}
Callables == {"f", "g", "h"}
FnName == [fn \in Callables |-> IF fn = "h" THEN "echo" ELSE "add"]

----------------------------------------------------------------------------
(* Values *)

Str(s)  == [t |-> "str",  v |-> s]
Num(s)  == [t |-> "int",  v |-> s]
List(s) == [t |-> "list", v |-> s]
Dict(s) == [t |-> "dict", v |-> s]
None    == [t |-> "null", v |-> ""]
Obj     == [t |-> "obj",  v |-> "<object>"]
\* filler of a field whose key is not in the mapping
Absent  == [t |-> "absent", v |-> ""]

\* the absent callable (Python None as a lookup result)
NoFn == "None"

\* Python values passed between the handlers
PyNone     == [kind |-> "none"]
PyDoc(d)   == [kind |-> "dict", doc |-> d]
PyList(s)  == [kind |-> "list", items |-> s]
PyJson(x)  == [kind |-> "json", of |-> x]
PyUnset    == [kind |-> "unset"]

\* outcome of a Python call
Return(v, c) == [exc |-> "", val |-> v, calls |-> c]
Raise(e, c)  == [exc |-> e, val |-> PyNone, calls |-> c]

----------------------------------------------------------------------------
(* Error codes *)

PARSE_ERROR           == -32700
INVALID_REQUEST       == -32600
METHOD_NOT_FOUND      == -32601
INVALID_METHOD_PARAMS == -32602
INTERNAL_ERROR        == -32603

ERROR_MESSAGE ==
    (PARSE_ERROR           :> "Parse error.") @@
    (INVALID_REQUEST       :> "Invalid Request.") @@
    (METHOD_NOT_FOUND      :> "Method not found.") @@
    (INVALID_METHOD_PARAMS :> "Invalid parameters.") @@
    (INTERNAL_ERROR        :> "Internal error.")

make_error_null_data(code, data) ==
    LET c == IF code \notin DOMAIN ERROR_MESSAGE THEN INTERNAL_ERROR ELSE code
    IN  [t       |-> "error",
         keys    |-> {"code", "message", "data"},
         code    |-> c,
         message |-> ERROR_MESSAGE[c],
         data    |-> data]

\* make_error(code, data = None)
make_error(code, data) ==
    LET c == IF code \notin DOMAIN ERROR_MESSAGE THEN INTERNAL_ERROR ELSE code
    IN  [t       |-> "error",
         keys    |-> IF data # None THEN {"code", "message", "data"}
                                    ELSE {"code", "message"},
         code    |-> c,
         message |-> ERROR_MESSAGE[c],
         data    |-> data]

\* the error field of a response when it is None, and when the key is absent
NullError   == [t |-> "null",   keys |-> {}, code |-> 0, message |-> "", data |-> None]
AbsentError == [t |-> "absent", keys |-> {}, code |-> 0, message |-> "", data |-> None]

----------------------------------------------------------------------------
(* Method registry *)

\* a registry mapping: a function from the registered names to callables
EmptyMap == [n \in {} |-> NoFn]

\* _register_method(function, methods, name): the mapping afterwards;
\* name = NoFn stands for the default name = None
_register_method(function, map, name) ==
    LET n == IF name = NoFn THEN FnName[function] ELSE name
    IN  IF n \notin DOMAIN map
        THEN [k \in (DOMAIN map) \cup {n} |-> IF k = n THEN function ELSE map[k]]
        ELSE map

\* dict.get(key, None) on a registry mapping; an unhashable key raises
DictGet(map, key) ==
    IF key.t \in {"list", "dict"} THEN Raise("TypeError", <<>>)
    ELSE IF key.t = "str" /\ key.v \in DOMAIN map
         THEN Return(map[key.v], <<>>)
         ELSE Return(NoFn, <<>>)

get_method(method) == DictGet(methods, method)

\* get_10_method(method)
get_10_method(method) ==
    LET ret == DictGet(methods_10, method)
    IN  IF ret.exc # "" THEN ret
        ELSE IF ret.val # NoFn THEN ret
        ELSE DictGet(methods, method)

get_20_method_common_first(method) ==
    LET ret == DictGet(methods, method)
    IN  IF ret.exc # "" THEN ret
        ELSE IF ret.val # NoFn THEN ret
        ELSE DictGet(methods_20, method)

\* get_20_method(method)
get_20_method(method) ==
    LET ret == DictGet(methods_20, method)
    IN  IF ret.exc # "" THEN ret
        ELSE IF ret.val # NoFn THEN ret
        ELSE DictGet(methods, method)

----------------------------------------------------------------------------
(* Request documents *)

\* texts with a character outside ASCII
NonAsciiTexts == {"caf\\u00e9"}
IsAscii(s) == s \notin NonAsciiTexts

Keys == {"jsonrpc", "id", "method", "params"}

\* a decoded document: t is its Python type; for a mapping, keys is the set
\* of its keys and the four fields are their values; for a string or a list
\* that is not a batch, keys is the set of the words w for which the Python
\* test (w in document) is true; items are the members of a batch
MkDoc(t, K, j, i, m, p, items) ==
    [t       |-> t,
     keys    |-> K,
     jsonrpc |-> IF t = "dict" /\ "jsonrpc" \in K THEN j ELSE Absent,
     id      |-> IF t = "dict" /\ "id"      \in K THEN i ELSE Absent,
     method  |-> IF t = "dict" /\ "method"  \in K THEN m ELSE Absent,
     params  |-> IF t = "dict" /\ "params"  \in K THEN p ELSE Absent,
     items   |-> items]

JsonrpcVals == {Str("2.0"), Str("1.5")}
IdVals      == {Str("a"), Num("1"), None}
MethodVals  == {Str("add"), Str("caf\\u00e9"), List("[1]")}
ParamVals   == {List("[2, 3]"), Dict("a"), Dict("caf\\u00e9"), Num("5")}

DictDocs ==
    {MkDoc("dict", K, j, i, m, p, <<>>) :
        K \in SUBSET Keys, j \in JsonrpcVals, i \in IdVals,
        m \in MethodVals, p \in ParamVals}

ScalarDocs ==
    {MkDoc("int", {}, Absent, Absent, Absent, Absent, <<>>),
     MkDoc("str", {}, Absent, Absent, Absent, Absent, <<>>),
     MkDoc("str", {"jsonrpc"}, Absent, Absent, Absent, Absent, <<>>)}

\* the members a batch is built from: a request that names add, one whose
\* params are a number, one that names a method nobody registers, and a
\* notification
BatchMembers ==
    {MkDoc("dict", {"jsonrpc", "id", "method"}, Str("2.0"), Str("a"), Str("add"), Absent, <<>>),
     MkDoc("dict", {"jsonrpc", "id", "method", "params"}, Str("2.0"), Num("1"), Str("add"), Num("5"), <<>>),
     MkDoc("dict", {"jsonrpc", "id", "method"}, Str("2.0"), None, Str("missing"), Absent, <<>>),
     MkDoc("dict", {"jsonrpc", "method"}, Str("2.0"), Absent, Str("add"), Absent, <<>>)}

BatchDocs ==
    {MkDoc("list", {}, Absent, Absent, Absent, Absent, items) :
        items \in UNION {[1..n -> BatchMembers] : n \in 0..MaxBatch}}

\* the input strings: text that does not decode, and the text of a document
NoInput == [ok |-> FALSE, text |-> "", doc |-> MkDoc("null", {}, Absent, Absent, Absent, Absent, <<>>)]
Garbage(s) == [ok |-> FALSE, text |-> s, doc |-> NoInput.doc]
TextOf(d)  == [ok |-> TRUE, text |-> "<json>", doc |-> d]

SingleInputs == {Garbage("{nope"), Garbage("]")} \cup {TextOf(d) : d \in DictDocs \cup ScalarDocs}
BatchInputs  == {TextOf(d) : d \in BatchDocs}

\* _from_json(json_str)
_from_json(js) ==
    IF js.ok THEN Return(js.doc, <<>>) ELSE Raise("JSONDecodeError", <<>>)

\* (key in req)
In(key, req) ==
    IF req.t \in {"dict", "str", "list"} THEN Return(key \in req.keys, <<>>)
    ELSE Raise("TypeError", <<>>)

\* req[key]
Subscript(req, key) ==
    IF req.t # "dict" THEN Raise("TypeError", <<>>)
    ELSE IF key \in req.keys THEN Return(req[key], <<>>)
    ELSE Raise("KeyError", <<>>)

\* 'method "{0}" not found'.format(method): formatting a unicode object with
\* a non-ASCII character into a byte string raises
NotFoundText(method) ==
    IF method.t = "str" /\ ~IsAscii(method.v)
    THEN Raise("UnicodeEncodeError", <<>>)
    ELSE Return(Str("method \"" \o method.v \o "\" not found"), <<>>)

\* dict_key_clean(d): str(k) of every key
dict_key_clean(d) ==
    IF ~IsAscii(d.v) THEN Raise("UnicodeEncodeError", <<>>)
    ELSE Return(Dict(d.v), <<>>)

----------------------------------------------------------------------------
(* Registered methods *)

\* what an invoked method does: it returns a value, or raises TypeError (an
\* arity mismatch, a subclass of Exception), an Exception whose message is
\* non-ASCII unicode, or SystemExit (not a subclass of Exception)
MethodFaults == {"TypeError", "UnicodeMessageError", "SystemExit"}
ReturnVals   == {Num("5"), None, Obj}
Outcomes ==
    {[exc |-> "", val |-> v] : v \in ReturnVals}
    \cup {[exc |-> e, val |-> None] : e \in MethodFaults}
BatchOutcomes ==
    {[exc |-> "", val |-> Num("5")], [exc |-> "TypeError", val |-> None]}

AnyOutcome == [exc |-> "", val |-> Num("5")]

\* (except Exception) catches e
IsException(e) == e # "SystemExit"

\* str(e)
StrOf(e) ==
    IF e = "UnicodeMessageError" THEN Raise("UnicodeEncodeError", <<>>)
    ELSE Return(Str(e), <<>>)

\* { "exception": str(e), "traceback": traceback.format_exc() }
ExceptionData(e) == Dict("exception: " \o e)

\* fn(*args) and fn(**args): what cannot be unpacked raises before the call
Invoke(fn, args, out) ==
    IF args.t \notin {"list", "dict", "str"} THEN Raise("TypeError", <<>>)
    ELSE IF out.exc # "" THEN Raise(out.exc, <<[fn |-> fn, out |-> out]>>)
    ELSE Return(out.val, <<[fn |-> fn, out |-> out]>>)

EmptyTuple == List("()")

----------------------------------------------------------------------------
(* Response documents *)

\* a response mapping: keys is the set of its keys
MkResponse(K, j, i, r, e) ==
    [keys    |-> K,
     jsonrpc |-> IF "jsonrpc" \in K THEN j ELSE Absent,
     id      |-> IF "id"      \in K THEN i ELSE Absent,
     result  |-> IF "result"  \in K THEN r ELSE Absent,
     error   |-> IF "error"   \in K THEN e ELSE AbsentError]

Result20NullId(id, res) == MkResponse({"jsonrpc", "id", "result"}, Str("2.0"), None, res, AbsentError)

Result20(id, res) == MkResponse({"jsonrpc", "id", "result"}, Str("2.0"), id, res, AbsentError)
Error20(id, err)  == MkResponse({"jsonrpc", "id", "error"}, Str("2.0"), id, Absent, err)
Result10NoError(id, res) == MkResponse({"id", "result"}, Absent, id, res, AbsentError)

Result10(id, res) == MkResponse({"id", "result", "error"}, Absent, id, res, NullError)
Error10(id, err)  == MkResponse({"id", "result", "error"}, Absent, id, None, err)

----------------------------------------------------------------------------
(* Dispatch core *)

\* req.get(key, default) of a mapping
GetOr(req, key, default) == IF key \in req.keys THEN req[key] ELSE default

\* an expression that evaluates req["id"] on the way to ret
WithId(req, c, ret) == IF "id" \in req.keys THEN ret ELSE Raise("KeyError", c)

\* json_rpc_20_request, the response to the invocation r (lines 338-359)
Respond20(req, r) ==
    IF r.exc = "" THEN
        WithId(req, r.calls, Return(PyDoc(Result20(req.id, r.val)), r.calls))
    ELSE IF ~IsException(r.exc) THEN Raise(r.exc, r.calls)
    ELSE IF StrOf(r.exc).exc # "" THEN
        WithId(req, r.calls, Raise(StrOf(r.exc).exc, r.calls))
    ELSE
        WithId(req, r.calls,
               Return(PyDoc(Error20(req.id, make_error(INTERNAL_ERROR, ExceptionData(r.exc)))),
                      r.calls))

\* json_rpc_20_request, the check of the params args (lines 317-343)
Bind20(req, fn, args, out) ==
    IF args.t = "dict" THEN
        IF dict_key_clean(args).exc # "" THEN
            \* the handler names INVALID_PARAMS, which is not defined
            WithId(req, <<>>, Raise("NameError", <<>>))
        ELSE Respond20(req, Invoke(fn, dict_key_clean(args).val, out))
    ELSE IF args.t # "list" THEN
        \* make_error is called with the keyword date, which it does not take
        WithId(req, <<>>, Raise("TypeError", <<>>))
    ELSE Respond20(req, Invoke(fn, args, out))

\* json_rpc_20_request, after the lookup fn of the method m (lines 310-317)
Resolved20(req, m, fn, out) ==
    IF fn.exc # "" THEN Raise(fn.exc, <<>>)
    ELSE IF fn.val = NoFn THEN
        IF NotFoundText(m).exc # "" THEN WithId(req, <<>>, Raise(NotFoundText(m).exc, <<>>))
        ELSE WithId(req, <<>>,
                    Return(PyDoc(Error20(req.id, make_error(METHOD_NOT_FOUND, NotFoundText(m).val))),
                           <<>>))
    ELSE Bind20(req, fn.val, GetOr(req, "params", EmptyTuple), out)

\* json_rpc_20_request(req); out is what the method does if it is invoked
json_rpc_20_request(req, out) ==
    IF req.t # "dict" THEN Raise("AttributeError", <<>>)
    ELSE Resolved20(req, GetOr(req, "method", Str("")),
                    get_20_method(GetOr(req, "method", Str(""))), out)

\* a notification, after the lookup fn: every fault of the call is swallowed
NotifyExceptException(req, fn, out, r) ==
    IF r.exc # "" /\ ~IsException(r.exc) THEN Raise(r.exc, r.calls)
    ELSE Return(PyNone, r.calls)

\* the try block of a notification (lines 369-378, 420-426): r is the call
Notify(req, fn, out, r) == Return(PyNone, r.calls)

\* a notification, after the lookup fn (lines 365-368, 416-419)
ResolvedNotification(req, fn, out) ==
    IF fn.exc # "" THEN Raise(fn.exc, <<>>)
    ELSE IF fn.val = NoFn THEN Return(PyNone, <<>>)
    ELSE Notify(req, fn.val, out,
                Invoke(fn.val, GetOr(req, "params", EmptyTuple), out))

json_rpc_20_notification_skips(req, out) == Return(PyNone, <<>>)

\* json_rpc_20_notification(req)
json_rpc_20_notification(req, out) ==
    IF req.t # "dict" THEN Raise("AttributeError", <<>>)
    ELSE ResolvedNotification(req, get_20_method(GetOr(req, "method", Str(""))), out)

\* json_rpc_10_request, the response to the invocation r (lines 393-410)
Respond10(req, r) ==
    IF r.exc = "" THEN
        WithId(req, r.calls, Return(PyDoc(Result10(req.id, r.val)), r.calls))
    ELSE IF ~IsException(r.exc) THEN Raise(r.exc, r.calls)
    ELSE IF StrOf(r.exc).exc # "" THEN
        WithId(req, r.calls, Raise(StrOf(r.exc).exc, r.calls))
    ELSE
        WithId(req, r.calls,
               Return(PyDoc(Error10(req.id, make_error(INTERNAL_ERROR, ExceptionData(r.exc)))),
                      r.calls))

\* json_rpc_10_request, after the lookup fn of the method m (lines 384-394)
Resolved10(req, m, fn, out) ==
    IF fn.exc # "" THEN Raise(fn.exc, <<>>)
    ELSE IF fn.val = NoFn THEN
        IF NotFoundText(m).exc # "" THEN WithId(req, <<>>, Raise(NotFoundText(m).exc, <<>>))
        ELSE WithId(req, <<>>,
                    Return(PyDoc(Error10(req.id, make_error(METHOD_NOT_FOUND, NotFoundText(m).val))),
                           <<>>))
    ELSE Respond10(req, Invoke(fn.val, GetOr(req, "params", EmptyTuple), out))

\* json_rpc_10_request(req)
json_rpc_10_request(req, out) ==
    IF req.t # "dict" THEN Raise("AttributeError", <<>>)
    ELSE Resolved10(req, GetOr(req, "method", Str("")),
                    get_10_method(GetOr(req, "method", Str(""))), out)

\* json_rpc_10_notification(req)
json_rpc_10_notification(req, out) ==
    IF req.t # "dict" THEN Raise("AttributeError", <<>>)
    ELSE ResolvedNotification(req, get_10_method(GetOr(req, "method", Str(""))), out)

----------------------------------------------------------------------------
(* Batch coordinator *)

BatchReturnAlwaysList(ret, done) == Return(PyList(ret), done)

\* the end of json_rpc_20_batch: the list of responses, or None
BatchReturn(ret, done) ==
    IF 0 < Len(ret) THEN Return(PyList(ret), done) ELSE Return(PyNone, done)

\* the loop of json_rpc_20_batch from member k on; ret holds the responses
\* appended so far and done the callables invoked so far
RECURSIVE BatchLoop(_, _, _, _, _)

\* the loop after the request member k returned or raised r
AfterRequest(reqs, outs, k, ret, done, r) ==
    IF r.exc # "" THEN Raise(r.exc, done \o r.calls)
    ELSE BatchLoop(reqs, outs, k + 1, Append(ret, r.val), done \o r.calls)

\* the loop after the notification member k returned or raised r
AfterNotification(reqs, outs, k, ret, done, r) ==
    IF r.exc # "" THEN Raise(r.exc, done \o r.calls)
    ELSE BatchLoop(reqs, outs, k + 1, ret, done \o r.calls)

BatchLoop(reqs, outs, k, ret, done) ==
    IF k > Len(reqs) THEN BatchReturn(ret, done)
    ELSE IF In("id", reqs[k]).exc # "" THEN Raise(In("id", reqs[k]).exc, done)
    ELSE IF In("id", reqs[k]).val
         THEN AfterRequest(reqs, outs, k, ret, done,
                           json_rpc_20_request(reqs[k], outs[k]))
         ELSE AfterNotification(reqs, outs, k, ret, done,
                                json_rpc_20_notification(reqs[k], outs[k]))

\* json_rpc_20_batch(reqs)
json_rpc_20_batch(reqs, outs) == BatchLoop(reqs, outs, 1, <<>>, <<>>)

----------------------------------------------------------------------------
(* Top-level handler *)

\* json_parser.dumps(data): an object that is no JSON value is rejected
Serializable(data) ==
    IF data.kind = "dict" THEN data.doc.result.t # "obj"
    ELSE IF data.kind = "list"
         THEN \A k \in 1..Len(data.items) : data.items[k].doc.result.t # "obj"
    ELSE TRUE

\* _to_json(data)
_to_json(data) ==
    IF Serializable(data) THEN Return(PyJson(data), <<>>)
    ELSE Raise("TypeError", <<>>)

\* outcome of the classification of handle_request: an exception, the early
\* (return None), or the response res that goes on to be encoded
Branch(exc, early, res, c) == [exc |-> exc, early |-> early, res |-> res, calls |-> c]

\* the branch taken after the dispatch r; silent: the branch returns None
Dispatched(r, silent) ==
    IF r.exc # "" THEN Branch(r.exc, FALSE, PyNone, r.calls)
    ELSE IF silent \/ r.val = PyNone THEN Branch("", TRUE, PyNone, r.calls)
    ELSE Branch("", FALSE, r.val, r.calls)

MissingIdSilent == PyNone

\* handle_request, the response to a 1.0 mapping without id (lines 260-264)
MissingIdResponse ==
    PyDoc(MkResponse({"result", "error"}, Absent, Absent, None,
                     make_error(INVALID_REQUEST, Str("missing id value"))))

\* handle_request, the if/elif chain on the decoded document (lines 238-269)
Classify(req, outs) ==
    IF req.t = "list" THEN Dispatched(json_rpc_20_batch(req.items, outs), FALSE)
    ELSE IF In("jsonrpc", req).exc # "" THEN Branch(In("jsonrpc", req).exc, FALSE, PyNone, <<>>)
    ELSE IF In("jsonrpc", req).val THEN
        IF Subscript(req, "jsonrpc").exc # "" THEN
            Branch(Subscript(req, "jsonrpc").exc, FALSE, PyNone, <<>>)
        ELSE IF req.jsonrpc = Str("2.0") THEN
            IF "id" \in req.keys
            THEN Dispatched(json_rpc_20_request(req, outs[1]), FALSE)
            ELSE Dispatched(json_rpc_20_notification(req, outs[1]), TRUE)
        ELSE IF Subscript(req, "id").exc # "" THEN
            Branch(Subscript(req, "id").exc, FALSE, PyNone, <<>>)
        ELSE
            Branch("", FALSE,
                   PyDoc(MkResponse({"jsonrpc", "id", "error"}, req.jsonrpc, req.id, Absent,
                                    make_error(INVALID_REQUEST, Str("Bad jsonrpc value")))),
                   <<>>)
    ELSE IF ~In("id", req).val THEN Branch("", FALSE, MissingIdResponse, <<>>)
    ELSE IF Subscript(req, "id").exc # "" THEN
        Branch(Subscript(req, "id").exc, FALSE, PyNone, <<>>)
    ELSE IF req.id = None
         THEN Dispatched(json_rpc_10_notification(req, outs[1]), TRUE)
         ELSE Dispatched(json_rpc_10_request(req, outs[1]), FALSE)

\* what a call of handle_request leaves: the exception or the returned
\* value, the callables invoked, and the last_result attribute
Left(exc, val, c, last) == [exc |-> exc, val |-> val, calls |-> c, last_result |-> last]

\* handle_request, the return of the second encoding again (lines 285-287)
Reencoded(again, res, c) == Left(again.exc, again.val, c, res)

\* handle_request, the response rebuilt after the encoder raised e
\* (lines 275-285)
Fallback(req, res, c, e) ==
    IF Subscript(req, "jsonrpc").exc # "" THEN Left(Subscript(req, "jsonrpc").exc, PyNone, c, res)
    ELSE IF Subscript(req, "id").exc # "" THEN Left(Subscript(req, "id").exc, PyNone, c, res)
    ELSE Reencoded(_to_json(PyDoc(MkResponse({"jsonrpc", "id", "error"}, req.jsonrpc, req.id, Absent,
                                             make_error(INTERNAL_ERROR, ExceptionData(e))))),
                   res, c)

\* handle_request, the encoding of the response res (lines 271-287)
Encode(req, res, c) ==
    IF _to_json(res).exc = "" THEN Left("", _to_json(res).val, c, res)
    ELSE Fallback(req, res, c, _to_json(res).exc)

ClassifiedKeepsLast(req, b) ==
    IF b.exc # "" THEN Left(b.exc, PyNone, b.calls, last_result)
    ELSE IF b.early THEN Left("", PyNone, b.calls, last_result)
    ELSE Encode(req, b.res, b.calls)

\* handle_request, after the classification b
Classified(req, b) ==
    IF b.exc # "" THEN Left(b.exc, PyNone, b.calls, PyNone)
    ELSE IF b.early THEN Left("", PyNone, b.calls, PyNone)
    ELSE Encode(req, b.res, b.calls)

\* handle_request(json_str)
handle_request(js, outs) ==
    IF _from_json(js).exc # "" THEN
        Left("", PyDoc(MkResponse({"jsonrpc", "error"}, Str("2.0"), Absent, Absent,
                                  make_error(PARSE_ERROR, Str(js.text)))),
             <<>>, PyNone)
    ELSE Classified(_from_json(js).val, Classify(_from_json(js).val, outs))

----------------------------------------------------------------------------
(* Callers and loop position *)

\* the callers that share the Service object
Threads == {"t1", "t2"}

\* a caller's position in handle_request and its locals: the input, what
\* the invoked method will do, res, the returned value, and what the caller
\* finds in last_result when the call returns; alone records that no other
\* caller took a step of its own call during this one
NoCall ==
    [pc |-> "idle", js |-> NoInput, out |-> AnyOutcome, res |-> PyUnset,
     ret |-> [exc |-> "", val |-> PyUnset], seen |-> PyUnset, alone |-> TRUE]

\* the position of json_rpc_20_batch in its loop: the members, what each
\* invoked method will do, the index of the current member, the responses
\* appended so far, and the invocations started and completed so far
NoBatch ==
    [pc |-> "idle", reqs |-> <<>>, outs |-> <<>>, k |-> 0, ret |-> <<>>, log |-> <<>>]

----------------------------------------------------------------------------
(* Construction *)

\* the method lists handed to Service(methods, methods10, methods20)
CommonLists  == {<<>>, <<"f">>}
DialectLists == {<<>>, <<"g">>}

RECURSIVE RegisterAll(_, _)
RegisterAll(fns, map) ==
    IF fns = <<>> THEN map
    ELSE RegisterAll(Tail(fns), _register_method(Head(fns), map, NoFn))

Init ==
    \E ms \in CommonLists, ms10 \in DialectLists, ms20 \in DialectLists :
        /\ methods    = RegisterAll(ms,   EmptyMap)
        /\ methods_10 = RegisterAll(ms10, EmptyMap)
        /\ methods_20 = RegisterAll(ms20, EmptyMap)
        /\ last_result = PyUnset
        /\ lastOp = [op |-> "__init__"]
        /\ json_str = NoInput
        /\ result = [exc |-> "", val |-> PyUnset]
        /\ calls = <<>>
        /\ thread = [t \in Threads |-> NoCall]
        /\ loop = NoBatch

----------------------------------------------------------------------------
(* Registration and lookup operations *)

RegNames == Names \cup {NoFn}

register_method ==
    \E function \in Callables, name \in RegNames :
        /\ methods' = _register_method(function, methods, name)
        /\ lastOp' = [op |-> "register_method", function |-> function,
                      name |-> IF name = NoFn THEN FnName[function] ELSE name]
        /\ UNCHANGED <<methods_10, methods_20, last_result, json_str, result, calls, thread, loop>>

register_10_method ==
    \E function \in Callables, name \in RegNames :
        /\ methods_10' = _register_method(function, methods_10, name)
        /\ lastOp' = [op |-> "register_10_method", function |-> function,
                      name |-> IF name = NoFn THEN FnName[function] ELSE name]
        /\ UNCHANGED <<methods, methods_20, last_result, json_str, result, calls, thread, loop>>

register_20_method ==
    \E function \in Callables, name \in RegNames :
        /\ methods_20' = _register_method(function, methods_20, name)
        /\ lastOp' = [op |-> "register_20_method", function |-> function,
                      name |-> IF name = NoFn THEN FnName[function] ELSE name]
        /\ UNCHANGED <<methods, methods_10, last_result, json_str, result, calls, thread, loop>>

\* a caller looks a name up in the three ways the class offers
Lookup ==
    \E name \in Names \cup {"missing"} :
        /\ lastOp' = [op |-> "lookup", name |-> name,
                      common |-> get_method(Str(name)).val,
                      v10    |-> get_10_method(Str(name)).val,
                      v20    |-> get_20_method(Str(name)).val]
        /\ UNCHANGED <<methods, methods_10, methods_20, last_result, json_str, result, calls, thread, loop>>

NextRegistry ==
    \/ register_method
    \/ register_10_method
    \/ register_20_method
    \/ Lookup

SpecRegistry == Init /\ [][NextRegistry]_vars

----------------------------------------------------------------------------
(* Request handling *)

\* a call of handle_request(json_str) that leaves h
Handle(js, h) ==
    /\ json_str' = js
    /\ result' = [exc |-> h.exc, val |-> h.val]
    /\ calls' = h.calls
    /\ last_result' = h.last_result
    /\ lastOp' = [op |-> "handle_request"]
    /\ UNCHANGED <<methods, methods_10, methods_20, thread, loop>>

\* handle_request on a single document, or on text that does not decode;
\* what the method does is drawn when the call invokes one
HandleRequest ==
    \E js \in SingleInputs :
        \E base \in {handle_request(js, <<AnyOutcome>>)} :
            \E out \in (IF base.calls = <<>> THEN {AnyOutcome} ELSE Outcomes) :
                \E h \in {IF out = AnyOutcome THEN base
                          ELSE handle_request(js, <<out>>)} :
                    Handle(js, h)

Spec == Init /\ [][HandleRequest]_vars

\* handle_request on a batch
HandleBatch ==
    \E js \in BatchInputs :
        \E outs \in [1..Len(js.doc.items) -> BatchOutcomes] :
            \E h \in {handle_request(js, outs)} :
                Handle(js, h)

SpecBatch == Init /\ [][HandleBatch]_vars

----------------------------------------------------------------------------
(* make_error as a function of its arguments *)

\* codes outside the catalog, next to and far from the recognized ones
OtherCodes == {0, 1, -1, -32000, -32604, -32699, 32700}

CodeInputs == DOMAIN ERROR_MESSAGE \cup OtherCodes

\* data = None is the default of the parameter: no data provided
DataInputs == {None, Str("a"), Num("5"), List("[2, 3]"), Dict("a")}

MakeError ==
    \E code \in CodeInputs, data \in DataInputs :
        /\ lastOp' = [op |-> "make_error", code |-> code, data |-> data,
                      ret |-> make_error(code, data)]
        /\ UNCHANGED <<methods, methods_10, methods_20, last_result, json_str, result, calls, thread, loop>>

SpecMakeError == Init /\ [][MakeError]_vars

----------------------------------------------------------------------------
(* Two callers of handle_request on one Service object *)

\* what the callers send: two requests with different ids, a notification,
\* and text that does not decode
ThreadInputs ==
    {TextOf(MkDoc("dict", {"jsonrpc", "id", "method"}, Str("2.0"), Str("a"), Str("add"), Absent, <<>>)),
     TextOf(MkDoc("dict", {"jsonrpc", "id", "method"}, Str("2.0"), Num("1"), Str("add"), Absent, <<>>)),
     TextOf(MkDoc("dict", {"jsonrpc", "method"}, Str("2.0"), Absent, Str("add"), Absent, <<>>)),
     Garbage("{nope")}

\* the positions between the clearing of last_result and the return
InCall == {"cleared", "dispatched", "stored"}

\* the callers after t moved to the position now: a step of t ends the
\* solitude of a caller that is inside its own call
Stepped(t, now) ==
    [u \in Threads |->
        IF u = t THEN now
        ELSE IF thread[u].pc \in InCall THEN [thread[u] EXCEPT !.alone = FALSE]
        ELSE thread[u]]

StoredNothing(res) == PyNone

\* handle_request, the value line 271 stores in last_result
StoredResult(res) == res

\* the caller t after its call returned or raised h
Returned(t, h) ==
    [thread[t] EXCEPT !.pc = "returned", !.ret = [exc |-> h.exc, val |-> h.val],
                      !.seen = last_result]

\* line 225: the call starts and clears last_result
ThreadClear(t) ==
    /\ thread[t].pc \in {"idle", "returned"}
    /\ \E js \in ThreadInputs :
           thread' = Stepped(t, [NoCall EXCEPT !.pc = "cleared", !.js = js,
                                    !.alone = \A u \in Threads \ {t} : thread[u].pc \notin InCall])
    /\ last_result' = PyNone
    /\ UNCHANGED <<methods, methods_10, methods_20, lastOp, json_str, result, calls, loop>>

\* lines 227-269: decoding and dispatch; the parse-error response, the
\* return of None and an exception end the call here
ThreadDispatch(t) ==
    /\ thread[t].pc = "cleared"
    /\ \E b \in {IF _from_json(thread[t].js).exc # "" THEN Branch("", TRUE, PyNone, <<>>)
                 ELSE Classify(thread[t].js.doc, <<thread[t].out>>)} :
           thread' = Stepped(t,
               IF _from_json(thread[t].js).exc # "" \/ b.exc # "" \/ b.early
               THEN Returned(t, handle_request(thread[t].js, <<thread[t].out>>))
               ELSE [thread[t] EXCEPT !.pc = "dispatched", !.res = b.res])
    /\ UNCHANGED <<methods, methods_10, methods_20, last_result, lastOp, json_str, result, calls, loop>>

\* line 271: self.last_result = res
ThreadStore(t) ==
    /\ thread[t].pc = "dispatched"
    /\ last_result' = StoredResult(thread[t].res)
    /\ thread' = Stepped(t, [thread[t] EXCEPT !.pc = "stored"])
    /\ UNCHANGED <<methods, methods_10, methods_20, lastOp, json_str, result, calls, loop>>

\* lines 273-287: the encoding and the return
ThreadEncode(t) ==
    /\ thread[t].pc = "stored"
    /\ thread' = Stepped(t, Returned(t, Encode(thread[t].js.doc, thread[t].res, <<>>)))
    /\ UNCHANGED <<methods, methods_10, methods_20, last_result, lastOp, json_str, result, calls, loop>>

NextThreads ==
    \E t \in Threads :
        \/ ThreadClear(t)
        \/ ThreadDispatch(t)
        \/ ThreadStore(t)
        \/ ThreadEncode(t)

SpecThreads == Init /\ [][NextThreads]_vars

----------------------------------------------------------------------------
(* json_rpc_20_batch, one member at a time *)

\* the members of the batches: those of BatchMembers and a notification
\* that names a method nobody registers
LoopMembers ==
    BatchMembers \cup
    {MkDoc("dict", {"jsonrpc", "method"}, Str("2.0"), Absent, Str("missing"), Absent, <<>>)}

\* the handler the loop hands the member req to (lines 300-303)
Member(req, out) ==
    IF In("id", req).val THEN json_rpc_20_request(req, out)
    ELSE json_rpc_20_notification(req, out)

\* the loop after the handler of member k returned or raised r: the
\* response of a request is appended (lines 301, 303)
Advance(r) ==
    IF r.exc # "" THEN [loop EXCEPT !.pc = "raised"]
    ELSE [loop EXCEPT !.pc = "member", !.k = loop.k + 1,
                      !.ret = IF In("id", loop.reqs[loop.k]).val
                              THEN Append(loop.ret, r.val) ELSE loop.ret]

\* the event ev of the invocation of fn for the current member
Event(ev, fn) == [ev |-> ev, k |-> loop.k, fn |-> fn]

\* json_rpc_20_batch is called with the members reqs (lines 299-300); the
\* loop position and ret are locals of this one call
BatchEnter ==
    /\ loop.pc = "idle"
    /\ \E n \in 0..MaxBatch :
           \E reqs \in [1..n -> LoopMembers], outs \in [1..n -> BatchOutcomes] :
               loop' = [NoBatch EXCEPT !.pc = "member", !.reqs = reqs, !.outs = outs, !.k = 1]
    /\ UNCHANGED <<methods, methods_10, methods_20, last_result, lastOp, json_str, result, calls, thread>>

\* the handler of member k starts the invocation of the resolved method
\* (lines 322, 338, 342 and 369-373)
MemberInvoke ==
    /\ loop.pc = "member" /\ loop.k <= Len(loop.reqs)
    /\ \E r \in {Member(loop.reqs[loop.k], loop.outs[loop.k])} :
           /\ r.calls # <<>>
           /\ loop' = [loop EXCEPT !.pc = "calling",
                                   !.log = Append(loop.log, Event("start", r.calls[1].fn))]
    /\ UNCHANGED <<methods, methods_10, methods_20, last_result, lastOp, json_str, result, calls, thread>>

\* the invocation completes, by return or by a fault, and the handler of
\* member k returns or raises
MemberReturn ==
    /\ loop.pc = "calling"
    /\ \E r \in {Member(loop.reqs[loop.k], loop.outs[loop.k])} :
           \E after \in {Advance(r)} :
               loop' = [after EXCEPT !.log = Append(loop.log, Event("end", r.calls[1].fn))]
    /\ UNCHANGED <<methods, methods_10, methods_20, last_result, lastOp, json_str, result, calls, thread>>

\* the handler of member k returns or raises without invoking anything
MemberSkip ==
    /\ loop.pc = "member" /\ loop.k <= Len(loop.reqs)
    /\ \E r \in {Member(loop.reqs[loop.k], loop.outs[loop.k])} :
           /\ r.calls = <<>>
           /\ loop' = Advance(r)
    /\ UNCHANGED <<methods, methods_10, methods_20, last_result, lastOp, json_str, result, calls, thread>>

\* the loop is over and json_rpc_20_batch returns (line 304)
BatchExit ==
    /\ loop.pc = "member" /\ loop.k > Len(loop.reqs)
    /\ loop' = [loop EXCEPT !.pc = "done"]
    /\ UNCHANGED <<methods, methods_10, methods_20, last_result, lastOp, json_str, result, calls, thread>>

NextLoop ==
    \/ BatchEnter
    \/ MemberInvoke
    \/ MemberReturn
    \/ MemberSkip
    \/ BatchExit

SpecLoop == Init /\ [][NextLoop]_vars

----------------------------------------------------------------------------
(* Properties *)

\* the last operation was a call of handle_request
Handled == lastOp.op = "handle_request"

\* the document the last input decoded to
Req == json_str.doc

HandledDict == Handled /\ json_str.ok /\ Req.t = "dict"

\* the classification of a mapping by handle_request
Is20Request      == HandledDict /\ "jsonrpc" \in Req.keys /\ Req.jsonrpc = Str("2.0") /\ "id" \in Req.keys
Is20Notification == HandledDict /\ "jsonrpc" \in Req.keys /\ Req.jsonrpc = Str("2.0") /\ "id" \notin Req.keys
Is10Request      == HandledDict /\ "jsonrpc" \notin Req.keys /\ "id" \in Req.keys /\ Req.id # None
Is10Notification == HandledDict /\ "jsonrpc" \notin Req.keys /\ "id" \in Req.keys /\ Req.id = None

\* the method value is a name, or the key is missing
NamesMethod == "method" \notin Req.keys \/ Req.method.t = "str"
MethodName  == IF "method" \in Req.keys THEN Req.method.v ELSE ""

\* the entry a dialect's lookup of name n must yield
Expected(own, n) ==
    IF n \in DOMAIN own THEN own[n]
    ELSE IF n \in DOMAIN methods THEN methods[n]
    ELSE NoFn

\* C1: handle_request never lets an exception propagate to its caller: for
\* every input that does not decode or decodes to a mapping it returns a
\* response or the absent value.
C1_NeverRaises ==
    (Handled /\ (~json_str.ok \/ Req.t = "dict")) => result.exc = ""

\* C2: a valid 2.0 request (params absent, a sequence or a mapping) whose
\* method resolves and returns normally gets the envelope
\* {jsonrpc: "2.0", id, result} with exactly the request's id and the
\* method's return value.
C2_ResultEnvelope ==
    (Is20Request /\ calls # <<>> /\ calls[1].out.exc = "") =>
        /\ result.exc = ""
        /\ last_result.kind = "dict"
        /\ last_result.doc.keys = {"jsonrpc", "id", "result"}
        /\ last_result.doc.jsonrpc = Str("2.0")
        /\ last_result.doc.id = Req.id
        /\ last_result.doc.result = calls[1].out.val

C2_Witness ==
    /\ Is20Request /\ Req.id = None /\ calls # <<>> /\ calls[1].out.exc = ""
    /\ last_result.kind = "dict" /\ last_result.doc.id = None
    /\ "params" \in Req.keys /\ Req.params.t = "dict"

HasId(member) == "id" \in member.keys
IdMembers == SelectSeq(Req.items, HasId)
HandledBatch == Handled /\ json_str.ok /\ Req.t = "list"

\* C4: a batch with N > 0 members that carry an id yields a sequence of
\* exactly N responses, the k-th with the id of the k-th id-carrying member,
\* whatever each member does.
C4_BatchResponses ==
    (HandledBatch /\ Len(IdMembers) > 0) =>
        /\ result.exc = ""
        /\ last_result.kind = "list"
        /\ Len(last_result.items) = Len(IdMembers)
        /\ \A k \in 1..Len(IdMembers) :
               last_result.items[k].doc.id = IdMembers[k].id

\* C5: a batch that collects no response (every member a notification, or
\* the empty batch) makes handle_request return the absent value, and no
\* batch yields the empty array.
C5_NoEmptyArray ==
    HandledBatch =>
        /\ Len(IdMembers) = 0 =>
               (result = [exc |-> "", val |-> PyNone] /\ last_result = PyNone)
        /\ result.val # PyJson(PyList(<<>>))
        /\ last_result # PyList(<<>>)

C5_Witness ==
    /\ HandledBatch /\ Len(Req.items) = 2 /\ Len(IdMembers) = 0
    /\ Len(calls) = 2 /\ calls[2].out.exc = "TypeError"
    /\ result = [exc |-> "", val |-> PyNone]

\* C6: a request whose method name does not resolve invokes nothing and gets
\* the METHOD_NOT_FOUND error with the message, data naming the method and
\* the request's id, in the shape of its dialect.
C6_MethodNotFound ==
    /\ (Is20Request /\ NamesMethod /\ Expected(methods_20, MethodName) = NoFn) =>
        /\ result.exc = "" /\ calls = <<>>
        /\ last_result = PyDoc(
               [keys |-> {"jsonrpc", "id", "error"}, jsonrpc |-> Str("2.0"),
                id |-> Req.id, result |-> Absent,
                error |-> [t |-> "error", keys |-> {"code", "message", "data"},
                           code |-> -32601, message |-> "Method not found.",
                           data |-> Str("method \"" \o MethodName \o "\" not found")]])
    /\ (Is10Request /\ NamesMethod /\ Expected(methods_10, MethodName) = NoFn) =>
        /\ result.exc = "" /\ calls = <<>>
        /\ last_result = PyDoc(
               [keys |-> {"id", "result", "error"}, jsonrpc |-> Absent,
                id |-> Req.id, result |-> None,
                error |-> [t |-> "error", keys |-> {"code", "message", "data"},
                           code |-> -32601, message |-> "Method not found.",
                           data |-> Str("method \"" \o MethodName \o "\" not found")]])

\* C7: a request whose resolved method raises gets the INTERNAL_ERROR error
\* with its own id in the shape of its dialect, and nothing propagates.
C7_FaultBecomesError ==
    ((Is20Request \/ Is10Request) /\ calls # <<>> /\ calls[1].out.exc # "") =>
        /\ result.exc = ""
        /\ last_result.kind = "dict"
        /\ last_result.doc.keys = (IF Is20Request THEN {"jsonrpc", "id", "error"}
                                   ELSE {"id", "result", "error"})
        /\ last_result.doc.id = Req.id
        /\ last_result.doc.error.code = -32603
        /\ Is20Request => last_result.doc.jsonrpc = Str("2.0")
        /\ Is10Request => last_result.doc.result = None

\* C8: input that does not decode invokes nothing and handle_request returns
\* the encoded form of {jsonrpc: "2.0", error: {code: -32700,
\* message: "Parse error.", data: the input}}.
C8_ParseErrorEncoded ==
    (Handled /\ ~json_str.ok) =>
        /\ calls = <<>>
        /\ result = [exc |-> "", val |-> PyJson(PyDoc(
               [keys |-> {"jsonrpc", "error"}, jsonrpc |-> Str("2.0"),
                id |-> Absent, result |-> Absent,
                error |-> [t |-> "error", keys |-> {"code", "message", "data"},
                           code |-> -32700, message |-> "Parse error.",
                           data |-> Str(json_str.text)]]))]

\* C9: registering a name into a mapping makes that mapping yield the
\* callable just registered, also when the name was already there.
C9_LastWriteWins ==
    /\ lastOp.op = "register_method"    => methods[lastOp.name] = lastOp.function
    /\ lastOp.op = "register_10_method" => methods_10[lastOp.name] = lastOp.function
    /\ lastOp.op = "register_20_method" => methods_20[lastOp.name] = lastOp.function

\* a 2.0 and a 1.0 request that name n
Request20(n) == MkDoc("dict", {"jsonrpc", "id", "method"}, Str("2.0"), Num("1"), Str(n), Absent, <<>>)
Request10(n) == MkDoc("dict", {"id", "method"}, Absent, Num("1"), Str(n), Absent, <<>>)

\* the request answered by r invoked fn, or found no method when fn is none
Dispatches(r, fn) ==
    IF fn = NoFn
    THEN r.calls = <<>> /\ r.exc = "" /\ r.val.doc.error.code = -32601
    ELSE r.calls = <<[fn |-> fn, out |-> AnyOutcome]>>

\* C10: a dialect's lookup yields its own entry when there is one, else the
\* common entry, else nothing, and never the other dialect's entry; a request
\* invokes the callable so found or gets METHOD_NOT_FOUND.
C10_DialectFirst ==
    \A n \in Names \cup {"missing"} :
        /\ get_20_method(Str(n)) = Return(Expected(methods_20, n), <<>>)
        /\ get_10_method(Str(n)) = Return(Expected(methods_10, n), <<>>)
        /\ lastOp.op = "lookup" /\ lastOp.name = n =>
               /\ lastOp.v20 = Expected(methods_20, n)
               /\ lastOp.v10 = Expected(methods_10, n)
        /\ Dispatches(json_rpc_20_request(Request20(n), AnyOutcome), Expected(methods_20, n))
        /\ Dispatches(json_rpc_10_request(Request10(n), AnyOutcome), Expected(methods_10, n))

C10_Witness ==
    /\ lastOp.op = "lookup" /\ lastOp.name = "add"
    /\ "add" \in DOMAIN methods /\ "add" \in DOMAIN methods_20
    /\ "add" \in DOMAIN methods_10
    /\ methods["add"] # methods_20["add"]
    /\ methods_10["add"] # methods_20["add"]
    /\ lastOp.v20 = methods_20["add"]
    /\ lastOp.v10 = methods_10["add"]
    /\ lastOp.common = methods["add"]

\* C11: a mapping whose jsonrpc value is not "2.0" invokes nothing and gets
\* the INVALID_REQUEST error whose jsonrpc field echoes that value and whose
\* id is the request's id.
C11_UnrecognizedVersion ==
    (HandledDict /\ "jsonrpc" \in Req.keys /\ Req.jsonrpc # Str("2.0")) =>
        /\ calls = <<>>
        /\ result.exc = ""
        /\ last_result.kind = "dict"
        /\ result.val = PyJson(last_result)
        /\ last_result.doc.error.code = -32600
        /\ last_result.doc.jsonrpc = Req.jsonrpc
        /\ last_result.doc.id = Req.id

\* C12: a mapping with neither a jsonrpc key nor an id key invokes nothing
\* and gets a 1.0-shaped response whose error has code INVALID_REQUEST and
\* whose result is null.
C12_MissingId ==
    (HandledDict /\ "jsonrpc" \notin Req.keys /\ "id" \notin Req.keys) =>
        /\ calls = <<>>
        /\ result.exc = ""
        /\ last_result.kind = "dict"
        /\ result.val = PyJson(last_result)
        /\ last_result.doc.keys = {"result", "error"}
        /\ last_result.doc.result = None
        /\ last_result.doc.error.t = "error"
        /\ last_result.doc.error.code = -32600
        /\ last_result.doc.error.message = "Invalid Request."

C12_Witness ==
    /\ HandledDict /\ Req.keys = {"method", "params"}
    /\ Req.method = Str("add") /\ "add" \in DOMAIN methods
    /\ calls = <<>>
    /\ result.val = PyJson(last_result)
    /\ last_result.doc.error.code = -32600

\* the response document json_rpc_10_request produced in the last call
Produced10 == Is10Request /\ last_result.kind = "dict"

\* C13 as stated: a 1.0 response has the fields id, result and error and
\* exactly one of result and error is non-null, also when the method
\* returns null.
C13_ExactlyOneNonNull ==
    Produced10 =>
        /\ last_result.doc.keys = {"id", "result", "error"}
        /\ (last_result.doc.result # None) # (last_result.doc.error.t # "null")

\* C13: a 1.0 response has the fields id, result and error, and result and
\* error are never both non-null: an error response has a null result, a
\* success response has a null error and the method's return value as its
\* result, which is null when the method returns null.
C13_AtMostOneNonNull ==
    Produced10 =>
        /\ last_result.doc.keys = {"id", "result", "error"}
        /\ ~(last_result.doc.result # None /\ last_result.doc.error.t # "null")
        /\ last_result.doc.error.t \in {"null", "error"}
        /\ last_result.doc.error.t = "null" =>
               /\ calls # <<>> /\ calls[1].out.exc = ""
               /\ last_result.doc.result = calls[1].out.val
        /\ last_result.doc.error.t = "error" =>
               (calls = <<>> \/ calls[1].out.exc # "")

C13_Witness ==
    /\ Produced10
    /\ calls # <<>> /\ calls[1].out = [exc |-> "", val |-> None]
    /\ last_result.doc.result = None
    /\ last_result.doc.error.t = "null"

\* C14: make_error(code, data) keeps a recognized code and turns any other
\* into INTERNAL_ERROR, its message is the catalog message of the resulting
\* code, and it has a data field exactly when data was provided.
C14_MakeError ==
    lastOp.op = "make_error" =>
        /\ lastOp.ret.code =
               (IF lastOp.code \in {-32700, -32600, -32601, -32602, -32603}
                THEN lastOp.code ELSE -32603)
        /\ lastOp.ret.message =
               (CASE lastOp.ret.code = -32700 -> "Parse error."
                  [] lastOp.ret.code = -32600 -> "Invalid Request."
                  [] lastOp.ret.code = -32601 -> "Method not found."
                  [] lastOp.ret.code = -32602 -> "Invalid parameters."
                  [] OTHER                    -> "Internal error.")
        /\ ("data" \in lastOp.ret.keys) <=> (lastOp.data # None)
        /\ "data" \in lastOp.ret.keys => lastOp.ret.data = lastOp.data
        /\ {"code", "message"} \subseteq lastOp.ret.keys

C14_Witness ==
    /\ lastOp.op = "make_error"
    /\ lastOp.code = -32604 /\ lastOp.data = None
    /\ lastOp.ret.code = -32603
    /\ lastOp.ret.keys = {"code", "message"}

\* C15 as stated: after a call that returned, last_result is the response
\* the call returned, and it is none exactly when the call returned none.
C15_ReturnedDocument ==
    (Handled /\ result.exc = "") =>
        IF result.val = PyNone THEN last_result = PyNone
        ELSE /\ last_result # PyNone
             /\ result.val \in {last_result, PyJson(last_result)}

\* the call returned the rebuilt INTERNAL_ERROR response because the
\* document it had stored, with the method's return value, did not encode
ReturnedRebuilt ==
    /\ result.val.kind = "json"
    /\ result.val.of # last_result
    /\ result.val.of.kind = "dict"
    /\ result.val.of.doc.error.t = "error"
    /\ result.val.of.doc.error.code = -32603
    /\ last_result.kind = "dict"
    /\ calls # <<>>
    /\ calls[1].out = [exc |-> "", val |-> Obj]
    /\ last_result.doc.result = Obj
    /\ last_result.doc.id = Req.id

\* C15: every call starts by clearing last_result; after a call that
\* returned, last_result is the document this call dispatched and handed to
\* the encoder: the returned response unless the encoding failed and was
\* rebuilt.  It is none when the call returned none and when the input did
\* not decode (the parse-error response is returned without being stored).
\* It is never a document of an earlier call.
C15_DispatchedDocument ==
    (Handled /\ result.exc = "") =>
        CASE result.val = PyNone      -> last_result = PyNone
          [] result.val.kind = "dict" -> ~json_str.ok /\ last_result = PyNone
          [] result.val.kind = "json" ->
                 /\ json_str.ok
                 /\ last_result # PyNone
                 /\ result.val.of = last_result \/ ReturnedRebuilt
          [] OTHER -> FALSE

\* the call that returned the rebuilt response
C15_Witness == Handled /\ result.exc = "" /\ ReturnedRebuilt

\* the last call was a 2.0 request whose method resolves under the 2.0 lookup
Resolves20 ==
    /\ Is20Request
    /\ "method" \in Req.keys /\ Req.method.t = "str"
    /\ Expected(methods_20, Req.method.v) # NoFn

\* C16: when the constructed response does not encode, handle_request
\* returns the encoding of a fresh INTERNAL_ERROR response with the
\* request's version and id, and the encoding failure does not escape.
C16_EncodeFallback ==
    (HandledDict /\ last_result.kind = "dict" /\ last_result.doc.result = Obj) =>
        /\ result.exc = ""
        /\ result.val.kind = "json"
        /\ result.val.of # last_result
        /\ result.val.of.doc.error.code = -32603
        /\ result.val.of.doc.id = Req.id
        /\ "jsonrpc" \in Req.keys => result.val.of.doc.jsonrpc = Req.jsonrpc

\* C17: a 2.0 request whose method resolves and whose params are neither a
\* mapping nor a sequence invokes nothing and gets {jsonrpc "2.0", id,
\* error} with code INVALID_REQUEST and the request's id.
C17_ParamsNotStructured ==
    (Resolves20 /\ "params" \in Req.keys /\ Req.params.t \notin {"list", "dict"}) =>
        /\ calls = <<>>
        /\ result.exc = ""
        /\ last_result.kind = "dict"
        /\ last_result.doc.keys = {"jsonrpc", "id", "error"}
        /\ last_result.doc.jsonrpc = Str("2.0")
        /\ last_result.doc.id = Req.id
        /\ last_result.doc.error.code = -32600

\* C18: a 2.0 request whose method resolves and whose params are a mapping
\* with a non-ASCII key invokes nothing and gets {jsonrpc "2.0", id, error}
\* with code INVALID_METHOD_PARAMS and the request's id.
C18_ParamsKeyNotAscii ==
    (Resolves20 /\ "params" \in Req.keys /\ Req.params = Dict("caf\\u00e9")) =>
        /\ calls = <<>>
        /\ result.exc = ""
        /\ last_result.kind = "dict"
        /\ last_result.doc.keys = {"jsonrpc", "id", "error"}
        /\ last_result.doc.jsonrpc = Str("2.0")
        /\ last_result.doc.id = Req.id
        /\ last_result.doc.error.code = -32602

\* the caller t is back from a call that returned an encoded response
ReturnedResponse(t) ==
    /\ thread[t].pc = "returned"
    /\ thread[t].ret.exc = ""
    /\ thread[t].ret.val.kind = "json"

\* C19: a call that no other call interleaved with finds its own response
\* document in last_result when it returns; a call that returns anything
\* else in last_result was interleaved with, and finds the slot cleared or
\* holding another document.
C19_AloneOwnDocument ==
    \A t \in Threads :
        ReturnedResponse(t) =>
            \/ thread[t].seen = thread[t].ret.val.of
            \/ /\ ~thread[t].alone
               /\ thread[t].seen.kind \in {"none", "dict"}

\* the race: a call returned a response while last_result held the document
\* of the other call
C19_Witness ==
    \E t \in Threads :
        /\ ReturnedResponse(t)
        /\ ~thread[t].alone
        /\ thread[t].seen.kind = "dict"
        /\ thread[t].seen # thread[t].ret.val.of
        /\ thread[t].seen.doc.id # thread[t].js.doc.id

\* the members of the batch are well formed: their params can be passed
WellFormedBatch ==
    \A m \in 1..Len(loop.reqs) : "params" \notin loop.reqs[m].keys

\* the callable the 2.0 lookup yields for member m
Resolved(m) == Expected(methods_20, loop.reqs[m].method.v)

\* the positions in the log where the invocation for member m starts
Starts(m) ==
    {i \in 1..Len(loop.log) : loop.log[i].ev = "start" /\ loop.log[i].k = m}

\* C20: in a batch of well-formed members the invocations happen one after
\* the other in the order of the members: every invocation has completed
\* before the next one starts, a member whose method resolves under the 2.0
\* lookup causes exactly one invocation of that method, and a member whose
\* method does not resolve causes none.
C20_SequentialInOrder ==
    WellFormedBatch =>
        /\ loop.pc # "raised"
        /\ \A i \in 1..Len(loop.log) :
               /\ loop.log[i].ev = (IF i % 2 = 1 THEN "start" ELSE "end")
               /\ i % 2 = 0 => /\ loop.log[i].k = loop.log[i - 1].k
                               /\ loop.log[i].fn = loop.log[i - 1].fn
               /\ i > 2 => loop.log[i - 2].k < loop.log[i].k
        /\ loop.pc = "calling" <=> Len(loop.log) % 2 = 1
        /\ \A m \in 1..Len(loop.reqs) :
               IF m < loop.k /\ Resolved(m) # NoFn
               THEN /\ Cardinality(Starts(m)) = 1
                    /\ \A i \in Starts(m) : loop.log[i].fn = Resolved(m)
               ELSE IF m = loop.k /\ loop.pc = "calling"
               THEN Cardinality(Starts(m)) = 1 /\ Resolved(m) # NoFn
               ELSE Starts(m) = {}
        /\ loop.pc = "done" =>
               json_rpc_20_batch(loop.reqs, loop.outs) =
                   BatchReturn(loop.ret,
                               [j \in 1..(Len(loop.log) \div 2) |->
                                   [fn |-> loop.log[2 * j].fn,
                                    out |-> loop.outs[loop.log[2 * j].k]]])

\* a notification and then a request, both invoked, the notification first
C20_Witness ==
    /\ loop.pc = "done"
    /\ Len(loop.reqs) = 2
    /\ ~HasId(loop.reqs[1]) /\ HasId(loop.reqs[2])
    /\ Len(loop.log) = 4
    /\ loop.log[1] = [ev |-> "start", k |-> 1, fn |-> "g"]
    /\ loop.log[3] = [ev |-> "start", k |-> 2, fn |-> "g"]
    /\ Len(loop.ret) = 1

====
